---- MODULE Spec2Model ----
(***************************************************************************)
(* Cordon-and-drain orchestrator of mcp-kubernetes-server                  *)
(* (K8sCordon, K8sDrain, evictWithRetry, waitPodDeleted and the drain      *)
(* helpers).  One drain call is modelled as a sequential process whose     *)
(* steps are the calls it makes to the cluster API; the cluster (pods      *)
(* appearing and disappearing) moves between those steps.  Time is in      *)
(* milliseconds and advances only inside the drain's own steps (call       *)
(* latency, backoff sleep, poll tick).  The caller's ctx is taken not to   *)
(* be cancelled while the call runs.                                       *)
(***************************************************************************)
EXTENDS Integers, Sequences, FiniteSets, TLC

(* ------------------------------ bounds -------------------------------- *)
\* longest pod listing returned by the List call
MaxPods == 2
\* number of pod appear/disappear events of the cluster during one drain
MaxEnvEvents == 1

(* ------------------------- program constants -------------------------- *)
\* time.NewTicker(500 * time.Millisecond) in waitPodDeleted
PollIntervalMS == 500
\* backoff = time.Second when initialBackoff <= 0
DefaultBackoffMS == 1000
\* maxBackoff = 10 * time.Second when maxBackoff <= 0
DefaultMaxBackoffMS == 10000

MirrorAnnotation == "kubernetes.io/config.mirror"

(* ------------------------------ inputs -------------------------------- *)
NodeNames == {"", "n1"}

PodNames == 1..MaxPods

\* what a pod on the node can look like: phase, annotation keys, kinds of the owner
\* references, kinds of the volumes
PodShapes ==
    { [phase |-> "Running", annotations |-> {}, owners |-> <<"ReplicaSet">>,
       volumes |-> <<"configMap">>],
      [phase |-> "Pending", annotations |-> {}, owners |-> <<"ReplicaSet", "DaemonSet">>,
       volumes |-> <<>>],
      [phase |-> "Running", annotations |-> {}, owners |-> <<>>,
       volumes |-> <<"configMap", "emptyDir">>],
      [phase |-> "Running", annotations |-> {}, owners |-> <<"DaemonSet">>,
       volumes |-> <<"hostPath">>],
      [phase |-> "Running", annotations |-> {MirrorAnnotation}, owners |-> <<"Node">>,
       volumes |-> <<"configMap">>],
      [phase |-> "Running", annotations |-> {MirrorAnnotation}, owners |-> <<"DaemonSet">>,
       volumes |-> <<"emptyDir">>],
      [phase |-> "Succeeded", annotations |-> {}, owners |-> <<"Job">>,
       volumes |-> <<>>],
      [phase |-> "Failed", annotations |-> {MirrorAnnotation}, owners |-> <<"DaemonSet">>,
       volumes |-> <<"hostPath">>] }

\* the one shape the timing runs use: an ordinary pod
PlainShapes ==
    { [phase |-> "Running", annotations |-> {}, owners |-> <<"ReplicaSet">>,
       volumes |-> <<"configMap">>] }

\* the pods the API can return under name n
PodsNamed(n, shapes) ==
    { [name |-> n, phase |-> s.phase, annotations |-> s.annotations,
       owners |-> s.owners, volumes |-> s.volumes] : s \in shapes }

\* The inputs of a run: the request arguments (timeout_seconds; retry_backoff_ms and
\* max_backoff_ms, <= 0 selecting the default; the flags), the latency of an API call
\* in ms, and the pod shapes.
DrainInputs ==
    [timeouts |-> {1}, backoffs |-> {<<500, 0>>}, flags |-> BOOLEAN,
     setupDurs |-> {0}, callDurs |-> {0}, shapes |-> PodShapes]

\* The inputs of the runs that follow the clock: one ordinary pod shape, drain
\* timeouts of 0 s, 3 s and 26 s, and backoff arguments that take the defaults
\* (1000 ms, 10000 ms), start at 2000 ms, or start above the maximum.
TimingInputs ==
    [timeouts |-> {0, 3, 26}, backoffs |-> {<<0, 0>>, <<2000, 0>>, <<5000, 1000>>},
     flags |-> {FALSE}, setupDurs |-> {0}, callDurs |-> {0}, shapes |-> PlainShapes]

\* The inputs of the runs with slow API calls: the cordon patch and the pod listing
\* take 0 or 700 ms, every other call 0 or 300 ms, against a timeout of 1 s.
LatencyInputs ==
    [timeouts |-> {1}, backoffs |-> {<<500, 0>>}, flags |-> {FALSE},
     setupDurs |-> {0, 700}, callDurs |-> {0, 300}, shapes |-> PlainShapes]

(* ----------------------------- variables ------------------------------ *)
VARIABLES
    pc,            \* position of the drain call
    args,          \* the request arguments after defaulting (lines 89-100)
    kubeClient,    \* package variable read by getClient: TRUE when initialised
    now,           \* clock, ms
    unschedulable, \* node.spec.unschedulable
    cluster,       \* pod name -> "none" | "orig" | "repl" (instance present)
    pods,          \* pods.Items
    i,             \* index of the range loop over pods.Items (1-based)
    deadline,      \* deadline of drainCtx, -1 before it exists
    results,       \* results []podResult
    backoff,       \* evictWithRetry local
    maxBackoff,    \* evictWithRetry local
    err,           \* value returned by evictWithRetry
    tickAt,        \* time of the next tick of waitPodDeleted's ticker
    result,        \* the CallToolResult returned, "none" while running
    resp,          \* answer to the last evictPod request of the current pod
    got,           \* answer to the last getPod request of the current pod
    reqs,          \* API requests issued so far, counted per operation and pod
    patches,       \* node patches issued so far: the value sent and whether it succeeded
    lists,         \* pod list requests issued so far: whether each succeeded
    envEvents,     \* cluster events so far
    sleeps,        \* backoff durations evictWithRetry has slept on for the current pod
    congested,     \* TRUE while every answer to evictPod for the current pod was a 429
    seen           \* instance the latest answered getPod of the current pod found, if any

vars == <<pc, args, kubeClient, now, unschedulable, cluster, pods, i,
          deadline, results, backoff, maxBackoff, err, tickAt, result, resp, got,
          reqs, patches, lists, envEvents, sleeps, congested, seen>>

(* ------------------------- helpers for drain -------------------------- *)
isCompletedPodSucceededOnly(pod) == pod.phase = "Succeeded"

isCompletedPod(pod) == pod.phase = "Succeeded" \/ pod.phase = "Failed"

isOwnedByFirstOwner(pod, kind) == Len(pod.owners) >= 1 /\ pod.owners[1] = kind

isOwnedBy(pod, kind) == \E k \in 1..Len(pod.owners) : pod.owners[k] = kind

hasLocalDataEmptyDirOnly(pod) ==
    \E k \in 1..Len(pod.volumes) : pod.volumes[k] = "emptyDir"

hasLocalData(pod) ==
    \E k \in 1..Len(pod.volumes) :
        pod.volumes[k] = "emptyDir" \/ pod.volumes[k] = "hostPath"

isMirrorPod(pod) == MirrorAnnotation \in pod.annotations

\* the action strings K8sDrain writes into podResult.Action
ActSkippedMirror == "skipped (mirror/static pod)"
ActSkippedDaemonSet == "skipped (daemonset)"
ActSkippedLocalData == "skipped (local data; set delete_local_data=true or force=true)"
ActEvicted == "evicted"
ActForceDeleted == "force_deleted"
ActEvictFailed == "evict_failed"
ActEvictAndDeleteFailed == "evict_and_delete_failed"
ActEvictDeleteFailed == "evict_failed_delete_failed"

ClassifyDropsMirror(pod, a) ==
    IF isCompletedPod(pod) \/ isMirrorPod(pod) THEN "continue"
    ELSE IF a.ignoreDaemonsets /\ isOwnedBy(pod, "DaemonSet") THEN ActSkippedDaemonSet
    ELSE IF ~a.deleteLocalData /\ hasLocalData(pod) /\ ~a.force THEN ActSkippedLocalData
    ELSE "evict"

ClassifyDaemonSetFirst(pod, a) ==
    IF isCompletedPod(pod) THEN "continue"
    ELSE IF a.ignoreDaemonsets /\ isOwnedBy(pod, "DaemonSet") THEN ActSkippedDaemonSet
    ELSE IF isMirrorPod(pod) THEN ActSkippedMirror
    ELSE IF ~a.deleteLocalData /\ hasLocalData(pod) /\ ~a.force THEN ActSkippedLocalData
    ELSE "evict"

ClassifyLocalDataFirst(pod, a) ==
    IF isCompletedPod(pod) THEN "continue"
    ELSE IF isMirrorPod(pod) THEN ActSkippedMirror
    ELSE IF ~a.deleteLocalData /\ hasLocalData(pod) /\ ~a.force THEN ActSkippedLocalData
    ELSE IF a.ignoreDaemonsets /\ isOwnedBy(pod, "DaemonSet") THEN ActSkippedDaemonSet
    ELSE "evict"

\* the branch the range loop takes for one pod, lines 144-178
Classify(pod, a) ==
    IF isCompletedPod(pod) THEN "continue"
    ELSE IF isMirrorPod(pod) THEN ActSkippedMirror
    ELSE IF a.ignoreDaemonsets /\ isOwnedBy(pod, "DaemonSet") THEN ActSkippedDaemonSet
    ELSE IF ~a.deleteLocalData /\ hasLocalData(pod) /\ ~a.force THEN ActSkippedLocalData
    ELSE "evict"

podResultFirstError(pod, action, error) ==
    [namespace |-> "default", name |-> pod.name, action |-> action,
     error |-> IF Len(error) > 1 THEN <<error[1]>> ELSE error]

podResultNoError(pod, action, error) ==
    [namespace |-> "default", name |-> pod.name, action |-> action, error |-> <<>>]

podResult(pod, action, error) ==
    [namespace |-> "default", name |-> pod.name, action |-> action, error |-> error]

textErrorResult(s) == [IsError |-> TRUE, text |-> s, results |-> <<>>, returned |-> TRUE]

textOKResult(rs) == [IsError |-> FALSE, text |-> "drain_attempted", results |-> rs, returned |-> TRUE]

NoResult == [IsError |-> FALSE, text |-> "", results |-> <<>>, returned |-> FALSE]

(* ------------------------------ context ------------------------------- *)
\* drainCtx.Err() at time t (the caller's ctx is not cancelled during the call)
CtxErr(t) == IF t >= deadline THEN "context deadline exceeded" ELSE "nil"

\* an API call under drainCtx that would answer after d ms is cut at the deadline
Interrupted(d) == now + d > deadline

(* --------------------------- cluster answers -------------------------- *)
Present(n) == cluster[n] # "none"

\* what the API can answer to evictPod, getPod and deletePod for pod n
EvictAnswers(n) ==
    IF Present(n)
    THEN {"Accepted", "TooManyRequests", "Conflict", "ServerTimeout", "Timeout",
          "Forbidden"}
    ELSE {"NotFound", "ServerTimeout", "Forbidden"}

GetAnswers(n) == IF Present(n) THEN {"Found", "InternalError"} ELSE {"NotFound", "InternalError"}

DeleteAnswers(n) == IF Present(n) THEN {"Ok", "Forbidden"} ELSE {"NotFound", "Forbidden"}

RECURSIVE SortedNames(_)
SortedNames(S) ==
    IF S = {} THEN <<>>
    ELSE LET m == CHOOSE x \in S : \A y \in S : x <= y
         IN <<m>> \o SortedNames(S \ {m})

\* the snapshots a List call can return: one pod per name present, in name order
Listings(shapes) ==
    LET names == SortedNames({n \in PodNames : Present(n)})
    IN {ps \in [1..Len(names) -> UNION {PodsNamed(n, shapes) : n \in PodNames}] :
            \A k \in 1..Len(names) : ps[k].name = names[k]}

\* one more request of kind op for pod n
Issue(op, n) == [reqs EXCEPT ![op][n] = @ + 1]

IsNotFoundGone(a) == a = "Gone"

\* apierrors.IsNotFound(err)
IsNotFound(a) == a = "NotFound"

\* apierrors.IsTooManyRequests(err)
IsTooManyRequests(a) == a = "TooManyRequests"

IsTransientConflictOnly(a) == a = "Conflict"

IsTransientOrForbidden(a) ==
    a = "Conflict" \/ a = "ServerTimeout" \/ a = "Timeout" \/ a = "Forbidden"

\* apierrors.IsConflict(err) || apierrors.IsServerTimeout(err) || apierrors.IsTimeout(err)
IsTransient(a) == a = "Conflict" \/ a = "ServerTimeout" \/ a = "Timeout"

(* ------------------------------- Init --------------------------------- *)
Init ==
    /\ pc = "setup"
    /\ args = [nodeName |-> "", ignoreDaemonsets |-> FALSE, deleteLocalData |-> FALSE,
               force |-> FALSE, timeoutSeconds |-> 0, retryBackoffMS |-> 0,
               maxBackoffMS |-> 0]
    /\ kubeClient = FALSE
    /\ now = 0
    /\ unschedulable \in BOOLEAN
    /\ cluster \in [PodNames -> {"none", "orig"}]
    /\ pods = <<>>
    /\ i = 0
    /\ deadline = -1
    /\ results = <<>>
    /\ backoff = 0
    /\ maxBackoff = 0
    /\ err = "nil"
    /\ tickAt = 0
    /\ result = NoResult
    /\ resp = "none"
    /\ got = "none"
    /\ reqs = [op \in {"evict", "get", "delete"} |-> [n \in PodNames |-> 0]]
    /\ patches = <<>>
    /\ lists = <<>>
    /\ envEvents = 0
    /\ sleeps = <<>>
    /\ congested = TRUE
    /\ seen = "none"

(* ------------------------------- server ------------------------------ *)
SetupClientFailureIgnored ==
    /\ pc = "setup"
    /\ \E ok \in BOOLEAN : kubeClient' = ok
    /\ pc' = "idle"
    /\ UNCHANGED <<args, now, unschedulable, cluster, pods, i, deadline, results, backoff,
                   maxBackoff, err, tickAt, result, resp, got, reqs, patches, lists,
                   envEvents, sleeps, congested, seen>>

\* server.go lines 35-37 and SetupClient: the server builds the clients before it
\* registers any tool, and gives up when it cannot
SetupClient ==
    /\ pc = "setup"
    /\ \E ok \in BOOLEAN :
        /\ kubeClient' = ok
        /\ pc' = IF ok THEN "idle" ELSE "exited"
    /\ UNCHANGED <<args, now, unschedulable, cluster, pods, i, deadline, results, backoff,
                   maxBackoff, err, tickAt, result, resp, got, reqs, patches, lists,
                   envEvents, sleeps, congested, seen>>

(* ------------------------------ K8sDrain ------------------------------ *)
\* lines 88-114: read the arguments, require node_name, get the client
Start(in) ==
    /\ pc = "idle"
    /\ \E nn \in NodeNames, ids \in in.flags, dld \in in.flags, f \in BOOLEAN,
          ts \in in.timeouts, bo \in in.backoffs :
        /\ args' = [nodeName |-> nn, ignoreDaemonsets |-> ids, deleteLocalData |-> dld,
                    force |-> f, timeoutSeconds |-> ts, retryBackoffMS |-> bo[1],
                    maxBackoffMS |-> bo[2]]
        /\ IF nn = ""
           THEN /\ result' = textErrorResult("node_name is required")
                /\ pc' = "returned"
           ELSE IF ~kubeClient
           THEN /\ result' = textErrorResult("Kubernetes client is not initialized")
                /\ pc' = "returned"
           ELSE /\ result' = result
                /\ pc' = "cordon"
    /\ UNCHANGED <<kubeClient, now, unschedulable, cluster, pods, i, deadline, results,
                   backoff, maxBackoff, err, tickAt, resp, got, reqs, patches, lists,
                   envEvents,
                   sleeps, congested, seen>>

CordonIgnoresError(in) ==
    /\ pc = "cordon"
    /\ \E d \in in.setupDurs, ok \in BOOLEAN :
        /\ now' = now + d
        /\ patches' = Append(patches, [unschedulable |-> TRUE, ok |-> ok])
        /\ unschedulable' = IF ok THEN TRUE ELSE unschedulable
        /\ result' = result
        /\ pc' = "list"
    /\ UNCHANGED <<args, kubeClient, cluster, pods, i, deadline, results, backoff,
                   maxBackoff, err, tickAt, resp, got, reqs, lists, envEvents,
                   sleeps, congested, seen>>

\* lines 116-119 and K8sCordon: patch spec.unschedulable=true under the caller's ctx
Cordon(in) ==
    /\ pc = "cordon"
    /\ \E d \in in.setupDurs, ok \in BOOLEAN :
        /\ now' = now + d
        /\ patches' = Append(patches, [unschedulable |-> TRUE, ok |-> ok])
        /\ IF ok
           THEN /\ unschedulable' = TRUE
                /\ result' = result
                /\ pc' = "list"
           ELSE /\ unschedulable' = unschedulable
                /\ result' = textErrorResult("Error cordoning node")
                /\ pc' = "returned"
    /\ UNCHANGED <<args, kubeClient, cluster, pods, i, deadline, results, backoff,
                   maxBackoff, err, tickAt, resp, got, reqs, lists, envEvents,
                   sleeps, congested, seen>>

\* lines 136-137: context.WithTimeout(ctx, timeout) evaluated at time t, after the
\* cordon patch and the pod listing have returned
DrainDeadline(t, secs) == t + secs * 1000

ListIgnoresError(in) ==
    /\ pc = "list"
    /\ \E d \in in.setupDurs, ok \in BOOLEAN :
        /\ now' = now + d
        /\ lists' = Append(lists, ok)
        /\ IF ok THEN \E ps \in Listings(in.shapes) : pods' = ps ELSE pods' = <<>>
        /\ deadline' = DrainDeadline(now', args.timeoutSeconds)
        /\ results' = <<>>
        /\ i' = 1
        /\ result' = result
        /\ pc' = "loop"
    /\ UNCHANGED <<args, kubeClient, unschedulable, cluster, backoff, maxBackoff, err,
                   tickAt, resp, got, reqs, patches, envEvents,
                   sleeps, congested, seen>>

\* lines 121-140: list the node's pods under the caller's ctx, then start drainCtx
List(in) ==
    /\ pc = "list"
    /\ \E d \in in.setupDurs, ok \in BOOLEAN :
        /\ now' = now + d
        /\ lists' = Append(lists, ok)
        /\ IF ok
           THEN /\ \E ps \in Listings(in.shapes) : pods' = ps
                /\ deadline' = DrainDeadline(now', args.timeoutSeconds)
                /\ results' = <<>>
                /\ i' = 1
                /\ result' = result
                /\ pc' = "loop"
           ELSE /\ result' = textErrorResult("Error listing pods on node")
                /\ pc' = "returned"
                /\ UNCHANGED <<pods, deadline, results, i>>
    /\ UNCHANGED <<args, kubeClient, unschedulable, cluster, backoff, maxBackoff, err,
                   tickAt, resp, got, reqs, patches, envEvents,
                   sleeps, congested, seen>>

InitialBackoffGrowing(ms) == (IF ms <= 0 THEN DefaultBackoffMS ELSE ms) * i

InitialBackoffDefaultOnly(ms) == DefaultBackoffMS

\* lines 247-250: the backoff evictWithRetry starts from
InitialBackoff(ms) == IF ms <= 0 THEN DefaultBackoffMS ELSE ms

\* lines 251-253
MaxBackoffOf(ms) == IF ms <= 0 THEN DefaultMaxBackoffMS ELSE ms

\* lines 287-290 and 301-304
NextBackoff(b, mx) == IF b * 2 > mx THEN mx ELSE b * 2

PodDeadlineFresh(d, t, secs) == t + secs * 1000

\* lines 179-180: every pod's evictWithRetry is called with drainCtx itself, so
\* the deadline d made at line 137 is the deadline of the pod handed over at time t
PodDeadline(d, t, secs) == d

PrependResult(rs, r) == <<r>> \o rs

\* results = append(results, podResult{...})
AppendResult(rs, r) == Append(rs, r)

ProcessPodProbesSkipped ==
    /\ pc = "loop"
    /\ i <= Len(pods)
    /\ LET pod == pods[i]
           c == Classify(pod, args)
       IN IF c = "continue"
          THEN /\ i' = i + 1
               /\ UNCHANGED <<pc, results, backoff, maxBackoff, deadline, reqs>>
          ELSE IF c = "evict"
          THEN /\ backoff' = InitialBackoff(args.retryBackoffMS)
               /\ maxBackoff' = MaxBackoffOf(args.maxBackoffMS)
               /\ deadline' = PodDeadline(deadline, now, args.timeoutSeconds)
               /\ pc' = "evict"
               /\ UNCHANGED <<i, results, reqs>>
          ELSE /\ results' = AppendResult(results, podResult(pod, c, <<>>))
               /\ i' = i + 1
               /\ reqs' = Issue("get", pod.name)
               /\ UNCHANGED <<pc, backoff, maxBackoff, deadline>>
    /\ UNCHANGED <<args, kubeClient, now, unschedulable, cluster, pods, err,
                   tickAt, result, resp, got, patches, lists, envEvents,
                   sleeps, congested, seen>>

\* lines 142-182 and 247-253: one iteration of the range loop, up to the first pass of
\* evictWithRetry's loop for a pod that is not skipped
ProcessPod ==
    /\ pc = "loop"
    /\ i <= Len(pods)
    /\ LET pod == pods[i]
           c == Classify(pod, args)
       IN IF c = "continue"
          THEN /\ i' = i + 1
               /\ UNCHANGED <<pc, results, backoff, maxBackoff, deadline>>
          ELSE IF c = "evict"
          THEN /\ backoff' = InitialBackoff(args.retryBackoffMS)
               /\ maxBackoff' = MaxBackoffOf(args.maxBackoffMS)
               /\ deadline' = PodDeadline(deadline, now, args.timeoutSeconds)
               /\ pc' = "evict"
               /\ UNCHANGED <<i, results>>
          ELSE /\ results' = AppendResult(results, podResult(pod, c, <<>>))
               /\ i' = i + 1
               /\ UNCHANGED <<pc, backoff, maxBackoff, deadline>>
    /\ UNCHANGED <<args, kubeClient, now, unschedulable, cluster, pods, err,
                   tickAt, result, resp, got, reqs, patches, lists, envEvents,
                   sleeps, congested, seen>>

ReportUncordonsOnFailure ==
    /\ pc = "loop"
    /\ i > Len(pods)
    /\ result' = textOKResult(results)
    /\ pc' = "returned"
    /\ IF \E k \in DOMAIN results : results[k].error # <<>>
       THEN /\ patches' = Append(patches, [unschedulable |-> FALSE, ok |-> TRUE])
            /\ unschedulable' = FALSE
       ELSE UNCHANGED <<patches, unschedulable>>
    /\ UNCHANGED <<args, kubeClient, now, cluster, pods, i, deadline,
                   results, backoff, maxBackoff, err, tickAt, resp, got, reqs,
                   lists, envEvents,
                   sleeps, congested, seen>>

ReportFailsOnPodFailure ==
    /\ pc = "loop"
    /\ i > Len(pods)
    /\ result' = IF \E k \in 1..Len(results) : results[k].error # <<>>
                 THEN textErrorResult("drain failed")
                 ELSE textOKResult(results)
    /\ pc' = "returned"
    /\ UNCHANGED <<args, kubeClient, now, unschedulable, cluster, pods, i, deadline,
                   results, backoff, maxBackoff, err, tickAt, resp, got, reqs, patches,
                   lists, envEvents,
                   sleeps, congested, seen>>

\* lines 222-236: the summary is returned as a successful result
Report ==
    /\ pc = "loop"
    /\ i > Len(pods)
    /\ result' = textOKResult(results)
    /\ pc' = "returned"
    /\ UNCHANGED <<args, kubeClient, now, unschedulable, cluster, pods, i, deadline,
                   results, backoff, maxBackoff, err, tickAt, resp, got, reqs, patches,
                   lists, envEvents,
                   sleeps, congested, seen>>

(* --------------------------- evictWithRetry --------------------------- *)
CurrentPod == pods[i]

\* the error the client returns for a request whose context ends before the answer
RequestCut == "request: context deadline exceeded"

SleepAlwaysCompletes(t, b) == TRUE

\* lines 282-286 and 296-300: the select on time.After(b) and ctx.Done(), entered at
\* time t: TRUE when the timer fires before the context is done
SleepCompletes(t, b) == t + b < deadline

\* evictWithRetry returns e at time t
EngineReturns(e, t) ==
    /\ err' = e
    /\ now' = t
    /\ pc' = "outcome"
    /\ UNCHANGED <<backoff, tickAt>>

AttemptAllowedUntilSleep(t) == TRUE

\* lines 256-258: the retry loop goes on to evictPod only while ctx.Err() is nil
AttemptAllowed(t) == CtxErr(t) = "nil"

\* lines 255-310: one pass of the retry loop: the deadline check, evictPod, and for a
\* refused eviction the backoff sleep that follows it
EvictAttempt(in) ==
    /\ pc = "evict"
    /\ LET n == CurrentPod.name
       IN IF ~AttemptAllowed(now)
          THEN /\ EngineReturns(CtxErr(now), now)
               /\ UNCHANGED <<reqs, resp, sleeps, congested>>
          ELSE /\ reqs' = Issue("evict", n)
               /\ \E d \in in.callDurs, a \in EvictAnswers(n) :
                    IF Interrupted(d)
                    THEN /\ resp' = "cut"
                         /\ EngineReturns(RequestCut, deadline)
                         /\ UNCHANGED <<sleeps, congested>>
                    ELSE /\ resp' = a
                         /\ congested' = (congested /\ IsTooManyRequests(a))
                         /\ sleeps' = IF IsTooManyRequests(a) \/ IsTransient(a)
                                      THEN Append(sleeps, backoff)
                                      ELSE sleeps
                         /\ IF a = "Accepted"
                            THEN /\ now' = now + d
                                 /\ tickAt' = now + d + PollIntervalMS
                                 /\ pc' = "poll"
                                 /\ UNCHANGED <<err, backoff>>
                            ELSE IF IsNotFound(a)
                            THEN EngineReturns("nil", now + d)
                            ELSE IF IsTooManyRequests(a) \/ IsTransient(a)
                            THEN IF SleepCompletes(now + d, backoff)
                                 THEN /\ now' = now + d + backoff
                                      /\ backoff' = NextBackoff(backoff, maxBackoff)
                                      /\ pc' = "evict"
                                      /\ UNCHANGED <<err, tickAt>>
                                 ELSE EngineReturns("context deadline exceeded", deadline)
                            ELSE EngineReturns(a, now + d)
    /\ UNCHANGED <<args, kubeClient, unschedulable, cluster, pods, i, deadline, results,
                   maxBackoff, result, got, patches, lists, envEvents, seen>>

GetSaysGoneOnAnyError(a) == a # "Found"

\* line 318: waitPodDeleted takes the pod for deleted
GetSaysGone(a) == IsNotFound(a)

PollErrorIsGetError(a, t) == IF a # "Found" THEN a ELSE "nil"

\* lines 321-323: the error waitPodDeleted returns after a getPod that did not say
\* not-found, "nil" when it goes on to the select
PollError(a, t) == IF a # "Found" /\ CtxErr(t) # "nil" THEN CtxErr(t) ELSE "nil"

\* the first tick of the ticker after time t, ticks being PollIntervalMS apart
TickAfter(t) == tickAt + PollIntervalMS * (((t - tickAt) \div PollIntervalMS) + 1)

\* lines 316-329: one pass of waitPodDeleted's loop: getPod, then the select on the
\* ticker and ctx.Done()
PollPod(in) ==
    /\ pc = "poll"
    /\ LET n == CurrentPod.name
       IN /\ reqs' = Issue("get", n)
          /\ IF CtxErr(now) # "nil"
             THEN /\ got' = "cut"
                  /\ seen' = seen
                  /\ EngineReturns(CtxErr(now), now)
             ELSE \E d \in in.callDurs, a \in GetAnswers(n) :
                    IF Interrupted(d)
                    THEN /\ got' = "cut"
                         /\ seen' = seen
                         /\ EngineReturns("context deadline exceeded", deadline)
                    ELSE LET t == now + d
                             \* the time the select at line 324 would take the tick
                             wake == IF tickAt <= t THEN t ELSE tickAt
                         IN /\ got' = a
                            /\ seen' = IF a = "Found" THEN cluster[n] ELSE seen
                            /\ IF GetSaysGone(a)
                               THEN EngineReturns("nil", t)
                               ELSE IF PollError(a, t) # "nil"
                               THEN EngineReturns(PollError(a, t), t)
                               ELSE \/ /\ wake >= deadline
                                       /\ EngineReturns("context deadline exceeded", deadline)
                                    \/ /\ wake <= deadline
                                       /\ t < deadline \/ tickAt <= t
                                       /\ now' = wake
                                       /\ tickAt' = TickAfter(wake)
                                       /\ pc' = "poll"
                                       /\ UNCHANGED <<err, backoff>>
    /\ UNCHANGED <<args, kubeClient, unschedulable, cluster, pods, i, deadline, results,
                   maxBackoff, result, resp, patches, lists, envEvents,
                   sleeps, congested>>

DeleteCtxErrOfCaller(t) == "nil"

\* line 190: the fallback Delete is issued under drainCtx
DeleteCtxErr(t) == CtxErr(t)

\* lines 179-219: the result recorded for the pod once evictWithRetry has returned,
\* with the force fallback's deletePod under drainCtx
Outcome(in) ==
    /\ pc = "outcome"
    /\ LET pod == CurrentPod
       IN IF err = "nil"
          THEN /\ results' = AppendResult(results, podResult(pod, ActEvicted, <<>>))
               /\ UNCHANGED <<now, reqs>>
          ELSE IF args.force
          THEN /\ reqs' = Issue("delete", pod.name)
               /\ IF DeleteCtxErr(now) # "nil"
                  THEN /\ results' = AppendResult(results,
                               podResult(pod, ActEvictDeleteFailed, <<err, DeleteCtxErr(now)>>))
                       /\ UNCHANGED now
                  ELSE \E d \in in.callDurs, a \in DeleteAnswers(pod.name) :
                         IF Interrupted(d)
                         THEN /\ now' = deadline
                              /\ results' = AppendResult(results,
                                     podResult(pod, ActEvictDeleteFailed, <<err, RequestCut>>))
                         ELSE /\ now' = now + d
                              /\ results' = AppendResult(results,
                                     IF a = "Ok"
                                     THEN podResult(pod, ActForceDeleted, <<>>)
                                     ELSE podResult(pod, ActEvictDeleteFailed, <<err, a>>))
          ELSE /\ results' = AppendResult(results, podResult(pod, ActEvictFailed, <<err>>))
               /\ UNCHANGED <<now, reqs>>
    /\ i' = i + 1
    /\ pc' = "loop"
    \* the locals of evictWithRetry and waitPodDeleted end with the call
    /\ backoff' = 0
    /\ maxBackoff' = 0
    /\ tickAt' = 0
    /\ err' = "nil"
    /\ resp' = "none"
    /\ got' = "none"
    /\ sleeps' = <<>>
    /\ congested' = TRUE
    /\ seen' = "none"
    /\ UNCHANGED <<args, kubeClient, unschedulable, cluster, pods, deadline, result,
                   patches, lists, envEvents>>

(* ---------------------------- the cluster ----------------------------- *)
\* The cluster is observed only through the answers to evictPod, getPod and
\* deletePod, so its moves are placed right before those calls.
Running == pc \in {"evict", "poll", "outcome"}

\* a pod object disappears from the API (its deletion completes)
PodGone ==
    /\ Running
    /\ envEvents < MaxEnvEvents
    /\ \E n \in PodNames :
        /\ Present(n)
        /\ cluster' = [cluster EXCEPT ![n] = "none"]
    /\ envEvents' = envEvents + 1
    /\ UNCHANGED <<pc, args, kubeClient, now, unschedulable, pods, i, deadline, results,
                   backoff, maxBackoff, err, tickAt, result, resp, got, reqs, patches,
                   lists,
                   sleeps, congested, seen>>

\* a pod object appears under a free name (a controller's replacement, a new pod)
PodCreated ==
    /\ Running
    /\ envEvents < MaxEnvEvents
    /\ \E n \in PodNames :
        /\ ~Present(n)
        /\ cluster' = [cluster EXCEPT ![n] = "repl"]
    /\ envEvents' = envEvents + 1
    /\ UNCHANGED <<pc, args, kubeClient, now, unschedulable, pods, i, deadline, results,
                   backoff, maxBackoff, err, tickAt, result, resp, got, reqs, patches,
                   lists,
                   sleeps, congested, seen>>

\* a pod object is deleted and its controller at once creates a new pod under the
\* same namespace and name (a StatefulSet pod), between two requests of the drain
PodReplaced ==
    /\ Running
    /\ envEvents < MaxEnvEvents
    /\ \E n \in PodNames :
        /\ cluster[n] = "orig"
        /\ cluster' = [cluster EXCEPT ![n] = "repl"]
    /\ envEvents' = envEvents + 1
    /\ UNCHANGED <<pc, args, kubeClient, now, unschedulable, pods, i, deadline, results,
                   backoff, maxBackoff, err, tickAt, result, resp, got, reqs, patches,
                   lists, sleeps, congested, seen>>

DrainStep(in) ==
    \/ Start(in)
    \/ Cordon(in)
    \/ List(in)
    \/ ProcessPod
    \/ Report
    \/ EvictAttempt(in)
    \/ PollPod(in)
    \/ Outcome(in)

Next ==
    \/ SetupClient
    \/ Start(DrainInputs)
    \/ Cordon(DrainInputs)
    \/ List(DrainInputs)
    \/ ProcessPod
    \/ Report
    \/ EvictAttempt(DrainInputs)
    \/ PollPod(DrainInputs)
    \/ Outcome(DrainInputs)
    \/ PodGone
    \/ PodCreated
    \/ PodReplaced

Spec == Init /\ [][Next]_vars

NextTiming ==
    \/ SetupClient
    \/ Start(TimingInputs)
    \/ Cordon(TimingInputs)
    \/ List(TimingInputs)
    \/ ProcessPod
    \/ Report
    \/ EvictAttempt(TimingInputs)
    \/ PollPod(TimingInputs)
    \/ Outcome(TimingInputs)
    \/ PodGone
    \/ PodCreated
    \/ PodReplaced

\* the same call and cluster, run over TimingInputs
SpecTiming == Init /\ [][NextTiming]_vars

NextLatency ==
    \/ SetupClient
    \/ Start(LatencyInputs)
    \/ Cordon(LatencyInputs)
    \/ List(LatencyInputs)
    \/ ProcessPod
    \/ Report
    \/ EvictAttempt(LatencyInputs)
    \/ PollPod(LatencyInputs)
    \/ Outcome(LatencyInputs)
    \/ PodGone
    \/ PodCreated
    \/ PodReplaced

\* the same call and cluster, run over LatencyInputs
SpecLatency == Init /\ [][NextLatency]_vars

\* the drain call is a running goroutine: it takes its next step
FairSpec == Spec /\ WF_vars(DrainStep(DrainInputs))

(* ---------------------------- properties ------------------------------ *)
\* The properties speak of pods by what the API object says, not through the
\* helpers of the code.
Terminal(p) == p.phase \in {"Succeeded", "Failed"}

NonTerminal(p) == ~Terminal(p)

MirrorAnnotated(p) == "kubernetes.io/config.mirror" \in p.annotations

DaemonSetOwned(p) == \E k \in DOMAIN p.owners : p.owners[k] = "DaemonSet"

LocalData(p) == \E k \in DOMAIN p.volumes : p.volumes[k] \in {"emptyDir", "hostPath"}

\* the call has returned the report
Reported == result.returned /\ ~result.IsError

CordonOK == Len(patches) >= 1 /\ patches[1].ok

ListOK == Len(lists) >= 1 /\ lists[1]

NamesOf(rs) == [k \in DOMAIN rs |-> <<rs[k].namespace, rs[k].name>>]

PodKeys(ps) == [k \in DOMAIN ps |-> <<"default", ps[k].name>>]

EntriesFor(rs, n) == Cardinality({k \in DOMAIN rs : rs[k].name = n})

\* the action recorded for pod n so far, "none" when there is no entry
ActionOf(n) ==
    IF \E k \in DOMAIN results : results[k].name = n
    THEN results[CHOOSE k \in DOMAIN results : results[k].name = n].action
    ELSE "none"

NoRequestFor(n) == \A op \in DOMAIN reqs : reqs[op][n] = 0

NoRequests == \A n \in PodNames : NoRequestFor(n)

EngineActions == {ActEvicted, ActForceDeleted, ActEvictFailed, ActEvictDeleteFailed}

\* the loop has passed pod k of the listing
Passed(k) == k < i

\* evictWithRetry has been called for pod k and the call is still open
InEngine(k) == k = i /\ pc \in {"evict", "poll", "outcome"}

\* pod k was given to evictWithRetry
HandedToEngine(k) ==
    InEngine(k) \/ (Passed(k) /\ ActionOf(pods[k].name) \in EngineActions)

\* pod k was skipped with the action act, without entering evictWithRetry
SkippedAs(k, act) ==
    Passed(k) /\ ActionOf(pods[k].name) = act /\ NoRequestFor(pods[k].name)

\* the loop has decided what to do with pod k
Decided(k) == Passed(k) \/ InEngine(k)

\* C1 as stated: in the returned report every listed pod appears exactly once and
\* no other pod appears.
C1_EveryListedPodOnce ==
    Reported =>
        /\ Len(lists) = 1
        /\ \A k \in DOMAIN pods : EntriesFor(result.results, pods[k].name) = 1
        /\ \A k \in DOMAIN result.results :
               \E j \in DOMAIN pods : pods[j].name = result.results[k].name

\* C1 amended: in the returned report every listed pod that is not in a terminal
\* phase appears exactly once, a listed pod in a terminal phase does not appear, and
\* no pod outside the single listing appears, whatever pods come and go meanwhile.
C1_EveryListedLivePodOnce ==
    Reported =>
        /\ Len(lists) = 1
        /\ \A k \in DOMAIN pods :
               EntriesFor(result.results, pods[k].name)
                   = IF Terminal(pods[k]) THEN 0 ELSE 1
        /\ \A k \in DOMAIN result.results :
               \E j \in DOMAIN pods : pods[j].name = result.results[k].name

\* a report with an entry is returned while a pod created after the listing is on
\* the node
C1_Witness ==
    /\ Reported
    /\ Len(result.results) >= 1
    /\ \E n \in PodNames :
        /\ cluster[n] = "repl"
        /\ \A k \in DOMAIN pods : pods[k].name # n

\* C2: the results are, at every moment and in the returned report, the listed pods
\* passed so far without the terminal ones, in listing order.
C2_ListingOrder ==
    /\ ListOK /\ pc # "list" =>
          NamesOf(results) = PodKeys(SelectSeq(SubSeq(pods, 1, i - 1), NonTerminal))
    /\ Reported =>
          NamesOf(result.results) = PodKeys(SelectSeq(pods, NonTerminal))

\* a skipped pod followed by an evicted pod in the returned report
C2_Witness ==
    /\ Reported
    /\ Len(result.results) = 2
    /\ result.results[1].action = ActSkippedDaemonSet
    /\ result.results[2].action = ActEvicted
    /\ result.results[1].name # result.results[2].name

\* C3: a listed pod in phase Succeeded or Failed never gets an entry and no evictPod,
\* getPod or deletePod request is ever issued for it.
C3_TerminalPodsUntouched ==
    \A k \in DOMAIN pods :
        Terminal(pods[k]) =>
            /\ EntriesFor(results, pods[k].name) = 0
            /\ EntriesFor(result.results, pods[k].name) = 0
            /\ NoRequestFor(pods[k].name)

\* a Failed pod carrying the mirror annotation, DaemonSet-owned and with a hostPath
\* volume, listed before a pod that was evicted, under force
C3_Witness ==
    /\ Reported
    /\ args.force
    /\ Len(pods) = 2
    /\ pods[1].phase = "Failed" /\ MirrorAnnotated(pods[1]) /\ LocalData(pods[1])
    /\ Len(result.results) = 1
    /\ result.results[1].action = ActEvicted

C5_DaemonSetByFlagOnly ==
    \A k \in DOMAIN pods :
        DaemonSetOwned(pods[k]) /\ Decided(k) =>
            IF args.ignoreDaemonsets
            THEN SkippedAs(k, ActSkippedDaemonSet)
            ELSE HandedToEngine(k)

\* C5 amended: a DaemonSet-owned pod that is neither terminal nor a mirror pod is
\* skipped as a DaemonSet pod when ignore_daemonsets is set; when it is not set the
\* pod is skipped for its local data if it has some and neither delete_local_data
\* nor force is set, and is handed to evictWithRetry otherwise.
C5_DaemonSetRule ==
    \A k \in DOMAIN pods :
        DaemonSetOwned(pods[k]) /\ NonTerminal(pods[k]) /\ ~MirrorAnnotated(pods[k])
          /\ Decided(k) =>
            IF args.ignoreDaemonsets
            THEN SkippedAs(k, ActSkippedDaemonSet)
            ELSE IF LocalData(pods[k]) /\ ~args.deleteLocalData /\ ~args.force
            THEN SkippedAs(k, ActSkippedLocalData)
            ELSE HandedToEngine(k)

\* without ignore_daemonsets a DaemonSet-owned pod has been evicted
C5_Witness ==
    /\ Reported
    /\ ~args.ignoreDaemonsets
    /\ \E k \in DOMAIN pods :
        /\ DaemonSetOwned(pods[k])
        /\ ActionOf(pods[k].name) = ActEvicted

\* C6 as stated: every pod with an emptyDir or hostPath volume is skipped for its
\* local data when neither delete_local_data nor force is set, and is handed to
\* evictWithRetry when one of them is set.
C6_LocalDataByFlagsOnly ==
    \A k \in DOMAIN pods :
        LocalData(pods[k]) /\ Decided(k) =>
            IF ~args.deleteLocalData /\ ~args.force
            THEN SkippedAs(k, ActSkippedLocalData)
            ELSE HandedToEngine(k)

\* C6 amended: the same for the pods with local data that reach the local-data rule:
\* those not in a terminal phase, without the mirror annotation, and not
\* DaemonSet-owned under ignore_daemonsets.
C6_LocalDataRule ==
    \A k \in DOMAIN pods :
        LocalData(pods[k]) /\ NonTerminal(pods[k]) /\ ~MirrorAnnotated(pods[k])
          /\ ~(args.ignoreDaemonsets /\ DaemonSetOwned(pods[k])) /\ Decided(k) =>
            IF ~args.deleteLocalData /\ ~args.force
            THEN SkippedAs(k, ActSkippedLocalData)
            ELSE HandedToEngine(k)

\* with force alone a pod with a hostPath volume went through evictWithRetry and
\* was force-deleted, and with no flag the same listing would skip it
C6_Witness ==
    /\ Reported
    /\ args.force /\ ~args.deleteLocalData
    /\ \E k \in DOMAIN pods :
        /\ LocalData(pods[k])
        /\ reqs["evict"][pods[k].name] >= 1
        /\ ActionOf(pods[k].name) = ActForceDeleted

\* C7: once the cordon patch has failed the call has returned a call-level error
\* with no report; there is no List call and no evictPod, getPod or deletePod request.
C7_CordonFailureAborts ==
    (Len(patches) >= 1 /\ ~patches[1].ok) =>
        /\ pc = "returned"
        /\ result.returned /\ result.IsError
        /\ result.results = <<>> /\ results = <<>>
        /\ Len(patches) = 1
        /\ lists = <<>> /\ pods = <<>>
        /\ NoRequests

\* the patch failed on a node that has pods
C7_Witness ==
    /\ Len(patches) = 1 /\ ~patches[1].ok
    /\ result.returned
    /\ \A n \in PodNames : Present(n)

\* C8: once the List call has failed after a successful cordon the call has returned
\* a call-level error with no report and no evictPod, getPod or deletePod request.
C8_ListFailureAborts ==
    (CordonOK /\ Len(lists) >= 1 /\ ~lists[1]) =>
        /\ pc = "returned"
        /\ result.returned /\ result.IsError
        /\ result.results = <<>> /\ results = <<>>
        /\ Len(lists) = 1
        /\ NoRequests

\* the listing failed on a cordoned node that has pods
C8_Witness ==
    /\ CordonOK /\ unschedulable
    /\ Len(lists) = 1 /\ ~lists[1]
    /\ result.returned
    /\ \A n \in PodNames : Present(n)

\* C9: once cordon and listing have succeeded the call eventually returns the report
\* as a non-error result, whatever the cluster answers.
C9_AlwaysReachesDone == (CordonOK /\ ListOK) ~> Reported

\* a report in which every listed pod failed: one eviction failed, one eviction and
\* its force delete failed
C9_Witness ==
    /\ Reported
    /\ Len(pods) = 2
    /\ Len(result.results) = 2
    /\ \A k \in DOMAIN result.results :
           result.results[k].action \in {ActEvictFailed, ActEvictDeleteFailed}
    /\ \A k \in DOMAIN result.results : result.results[k].error # <<>>

\* C10: after an accepted eviction the engine keeps polling getPod while the pod is
\* there and the deadline has not passed; it returns nil only on a getPod that
\* found the pod gone, and the outcome is then evicted; it returns an error only
\* once the deadline has passed, and the outcome is then not evicted.
C10_PollUntilGoneOrDeadline ==
    [][ /\ (pc = "poll" /\ pc' = "poll" /\ reqs' # reqs) =>
              got' \in {"Found", "InternalError"} /\ now' <= deadline
        /\ (pc = "poll" /\ pc' = "outcome") =>
              /\ reqs'["get"][CurrentPod.name] >= 1
              /\ \/ err' = "nil" /\ got' = "NotFound"
                 \/ err' = "context deadline exceeded" /\ now' >= deadline
                      /\ got' # "NotFound"
        /\ (pc = "outcome" /\ resp = "Accepted" /\ pc' = "loop") =>
              LET r == results'[Len(results')]
              IN /\ r.name = CurrentPod.name
                 /\ (r.action = ActEvicted) = (err = "nil")
                 /\ (r.action = ActEvicted) => got = "NotFound"
                 /\ (err # "nil") => err = "context deadline exceeded" /\ now >= deadline
      ]_vars

\* an accepted eviction is about to be recorded as evicted after a poll that found
\* the pod and a later poll that did not
C10_Witness ==
    /\ pc = "outcome"
    /\ resp = "Accepted"
    /\ err = "nil"
    /\ got = "NotFound"
    /\ reqs["get"][CurrentPod.name] >= 2

\* the entry the step appends to results
NewEntry == results'[Len(results')]

\* the step in which K8sDrain records the current pod's result
Records == pc = "outcome" /\ pc' = "loop"

\* C11: an evictPod answered not-found ends the engine at once with nil, on the
\* first attempt or on a retry; the pod is recorded as evicted with no error, and no
\* getPod or deletePod request and no further evictPod request is made for it.
C11_NotFoundIsEvicted ==
    [][ /\ (pc = "evict" /\ reqs' # reqs /\ resp' = "NotFound") =>
              pc' = "outcome" /\ err' = "nil" /\ now' = now
        /\ (pc = "outcome" /\ resp = "NotFound") =>
              /\ reqs' = reqs
              /\ reqs["get"][CurrentPod.name] = 0
              /\ reqs["delete"][CurrentPod.name] = 0
              /\ Records =>
                    NewEntry = [namespace |-> "default", name |-> CurrentPod.name,
                                action |-> "evicted", error |-> <<>>]
      ]_vars

\* not-found on the retry that follows a refused attempt and its backoff sleep
C11_Witness ==
    /\ pc = "outcome"
    /\ resp = "NotFound"
    /\ reqs["evict"][CurrentPod.name] = 2
    /\ Len(sleeps) = 1
    /\ err = "nil"

\* C12: when evictWithRetry returns an error and force is set, one deletePod request
\* is made for the pod and no other request; the pod is recorded as force_deleted
\* with no error when the delete succeeds, and as evict_failed_delete_failed (the
\* spec's evict_and_delete_failed) with the eviction error followed by the delete
\* error when it fails.
C12_ForceFallback ==
    [][ /\ \A n \in PodNames : reqs'["delete"][n] <= 1
        /\ (Records /\ err # "nil" /\ args.force) =>
              /\ reqs' = [reqs EXCEPT !["delete"][CurrentPod.name] = 1]
              /\ NewEntry.name = CurrentPod.name
              /\ \/ /\ NewEntry.action = "force_deleted"
                    /\ NewEntry.error = <<>>
                    /\ Present(CurrentPod.name)
                    /\ now < deadline
                 \/ /\ NewEntry.action = "evict_failed_delete_failed"
                    /\ Len(NewEntry.error) = 2
                    /\ NewEntry.error[1] = err
                    /\ NewEntry.error[2] \in {"Forbidden", "NotFound", RequestCut,
                                              "context deadline exceeded"}
      ]_vars

\* a report with a force-deleted pod and a pod whose eviction timed out and whose
\* delete failed
C12_Witness ==
    /\ Reported
    /\ args.force
    /\ Len(result.results) = 2
    /\ result.results[1].action = "force_deleted"
    /\ result.results[2].action = "evict_failed_delete_failed"
    /\ result.results[2].error[1] = "context deadline exceeded"

\* C13: without force no deletePod request is ever made, and a pod whose
\* evictWithRetry returned an error is recorded as evict_failed with that error, the
\* loop going on to the next pod.
C13_NoForceNoDelete ==
    [][ /\ ~args'.force => \A n \in PodNames : reqs'["delete"][n] = 0
        /\ (Records /\ err # "nil" /\ ~args.force) =>
              /\ NewEntry = [namespace |-> "default", name |-> CurrentPod.name,
                             action |-> "evict_failed", error |-> <<err>>]
              /\ i' = i + 1
              /\ ~result'.returned
      ]_vars

\* a report in which a failed eviction is followed by the next pod's eviction
C13_Witness ==
    /\ Reported
    /\ ~args.force
    /\ Len(result.results) = 2
    /\ result.results[1].action = "evict_failed"
    /\ result.results[1].error = <<"Forbidden">>
    /\ result.results[2].action = "evicted"
    /\ \A n \in PodNames : reqs["delete"][n] = 0

\* C14: a pod whose every evictPod was answered 429 until the deadline is recorded
\* as evict_failed without force, and as force_deleted or
\* evict_failed_delete_failed with force; no backoff sleep and no poll wait runs past
\* the deadline, and the call returns no later than the deadline plus one poll
\* interval.
C14_CongestionUntilDeadline ==
    [][ /\ pc' \in {"evict", "poll", "outcome"} => now' <= deadline'
        /\ (result'.returned /\ ListOK') => now' <= deadline' + PollIntervalMS
        /\ (Records /\ congested /\ reqs["evict"][CurrentPod.name] >= 1 /\ err # "nil") =>
              /\ err = "context deadline exceeded"
              /\ now = deadline
              /\ Len(sleeps) = reqs["evict"][CurrentPod.name]
              /\ NewEntry.name = CurrentPod.name
              /\ IF args.force
                 THEN NewEntry.action \in {"force_deleted", "evict_failed_delete_failed"}
                 ELSE NewEntry.action = "evict_failed" /\ NewEntry.error = <<err>>
      ]_vars

\* under force, the engine has timed out at the deadline after six refused attempts
C14_Witness ==
    /\ pc = "outcome"
    /\ args.force
    /\ congested
    /\ reqs["evict"][CurrentPod.name] = 6
    /\ err = "context deadline exceeded"
    /\ now = deadline

\* the backoff arguments as evictWithRetry reads them, in the words of the
\* properties: a value that is not positive stands for the default
BackoffInitial == IF args.retryBackoffMS <= 0 THEN 1000 ELSE args.retryBackoffMS

BackoffMax == IF args.maxBackoffMS <= 0 THEN 10000 ELSE args.maxBackoffMS

\* C15 as stated: for every backoffInitial and backoffMax the backoff sleeps of one
\* pod never decrease and none exceeds backoffMax; with 1000 ms and 10000 ms they
\* are 1000, 2000, 4000, 8000, 10000, 10000, ...
C15_BackoffBounded ==
    /\ \A k \in DOMAIN sleeps : sleeps[k] <= BackoffMax
    /\ \A k \in 1..(Len(sleeps) - 1) : sleeps[k] <= sleeps[k + 1]
    /\ (BackoffInitial = 1000 /\ BackoffMax = 10000) =>
          \A k \in DOMAIN sleeps :
              sleeps[k] = IF k <= 4 THEN <<1000, 2000, 4000, 8000>>[k] ELSE 10000

\* what the code does: the first sleep is backoffInitial, each later one the double
\* of the one before cut down to backoffMax; so the stated bounds hold when
\* backoffInitial <= backoffMax, and the stated example holds.
C15_BackoffRecurrence ==
    /\ Len(sleeps) >= 1 => sleeps[1] = BackoffInitial
    /\ \A k \in 1..(Len(sleeps) - 1) :
          sleeps[k + 1] = IF 2 * sleeps[k] > BackoffMax THEN BackoffMax ELSE 2 * sleeps[k]
    /\ BackoffInitial <= BackoffMax => C15_BackoffBounded

\* retry_backoff_ms=5000 and max_backoff_ms=1000: a sleep of 5000 ms, then 1000 ms
C15_Witness ==
    /\ pc \in {"evict", "outcome"}
    /\ args.retryBackoffMS = 5000 /\ args.maxBackoffMS = 1000
    /\ Len(sleeps) >= 2
    /\ sleeps[1] = 5000 /\ sleeps[2] = 1000

\* the stated example is reached in full
C15_ExampleReached ==
    sleeps = <<1000, 2000, 4000, 8000, 10000, 10000>>

\* C16: an evictPod request is only ever sent while the deadline has not elapsed;
\* when evictWithRetry's loop comes to an attempt with the deadline elapsed, for the
\* current pod or a later one, it returns the deadline error at once and sends
\* nothing.
C16_DeadlineCheckedBeforeAttempt ==
    [][ /\ reqs'["evict"] # reqs["evict"] => now < deadline
        /\ (pc = "evict" /\ now >= deadline /\ cluster' = cluster) =>
              /\ pc' = "outcome"
              /\ err' = "context deadline exceeded"
              /\ now' = now
              /\ reqs' = reqs
      ]_vars

\* the second pod's engine call has timed out without any evictPod request, after
\* the first pod's retries ran into the deadline
C16_Witness ==
    /\ pc = "outcome"
    /\ i = 2
    /\ reqs["evict"][pods[1].name] >= 2
    /\ reqs["evict"][pods[2].name] = 0
    /\ err = "context deadline exceeded"
    /\ now >= deadline

ScenarioB ==
    /\ pc \in {"evict", "outcome"}
    /\ Len(pods) = 1
    /\ args.timeoutSeconds = 3
    /\ args.retryBackoffMS = 2000
    /\ ~args.force
    /\ congested

\* C18: in scenario B the engine sends the first evictPod and exactly one retry, 2 s
\* later; the sleep that follows is cut by the deadline at 3 s and the pod is
\* recorded as evict_failed.
C18_ScenarioB ==
    [][ ScenarioB =>
          /\ reqs'["evict"][pods[1].name] <= 2
          /\ (pc = "outcome" /\ err # "nil") =>
                /\ reqs["evict"][pods[1].name] = 2
                /\ sleeps = <<2000, 4000>>
                /\ err = "context deadline exceeded"
                /\ now = deadline
                /\ Records =>
                      NewEntry = [namespace |-> "default", name |-> pods[1].name,
                                  action |-> "evict_failed",
                                  error |-> <<"context deadline exceeded">>]
      ]_vars

\* scenario B has run into the deadline
C18_Witness ==
    /\ ScenarioB
    /\ pc = "outcome"
    /\ resp = "TooManyRequests"
    /\ reqs["evict"][pods[1].name] = 2
    /\ err = "context deadline exceeded"
    /\ now = 3000

CordonFailed == Len(patches) >= 1 /\ ~patches[Len(patches)].ok

ListFailed == Len(lists) >= 1 /\ ~lists[Len(lists)]

\* C19: the call returns an error result exactly when node_name is missing, the
\* cordon patch failed or the pod listing failed; every other return is the report.
C19_CallLevelFailures ==
    result.returned =>
        /\ result.IsError <=> (args.nodeName = "" \/ CordonFailed \/ ListFailed)
        /\ result.IsError => result.results = <<>>
        /\ ~result.IsError => result.text = "drain_attempted" /\ result.results = results

\* the three failures are told apart: here the listing failed after the cordon
\* succeeded on an initialised client
C19_Witness ==
    /\ result.returned /\ result.IsError
    /\ kubeClient
    /\ args.nodeName # ""
    /\ ~CordonFailed
    /\ ListFailed

AllEntries == {results[k] : k \in DOMAIN results}
                 \cup {result.results[k] : k \in DOMAIN result.results}

\* C20 as stated: every entry's action is one of skipped_mirror, skipped_daemonset,
\* skipped_local_data, evicted, force_deleted, evict_failed,
\* evict_and_delete_failed.
C20_SpecActionValues ==
    \A r \in AllEntries :
        r.action \in {"skipped_mirror", "skipped_daemonset", "skipped_local_data",
                      "evicted", "force_deleted", "evict_failed",
                      "evict_and_delete_failed"}

\* C20 amended: every entry's action is one of the seven strings the code writes.
C20_CodeActionValues ==
    \A r \in AllEntries :
        r.action \in {"skipped (mirror/static pod)", "skipped (daemonset)",
                      "skipped (local data; set delete_local_data=true or force=true)",
                      "evicted", "force_deleted", "evict_failed",
                      "evict_failed_delete_failed"}

\* a report with a failed eviction whose fallback delete failed and a skipped
\* DaemonSet pod
C20_Witness ==
    /\ Reported
    /\ \E r \in AllEntries : r.action = "evict_failed_delete_failed"
    /\ \E r \in AllEntries : r.action = "skipped (daemonset)"

\* the time left on the drain deadline
TimeRemaining == deadline - now

\* the steps of the per-pod processing (classification, eviction engine, fallback)
Processing == pc \in {"loop", "evict", "poll", "outcome"}

\* C21: all pods of one drain share a single deadline that is fixed once, when the
\* listing has returned, and is never reset or extended afterwards: the time
\* remaining starts at the configured timeout, never grows from one step of the
\* pod processing to the next (so pod i+1 starts with no more than pod i had), and
\* never falls below minus one poll interval, i.e. the pod processing as a whole
\* takes at most the timeout plus one poll interval.
C21_SingleSharedDeadline ==
    [][ /\ (pc = "list" /\ pc' = "loop") => TimeRemaining' = args.timeoutSeconds * 1000
        /\ Processing =>
              /\ deadline' = deadline
              /\ TimeRemaining' <= TimeRemaining
              /\ TimeRemaining' >= 0 - PollIntervalMS ]_vars

\* the second pod is handed to the engine after the first one has used up part of
\* the budget
C21_Witness ==
    /\ pc = "evict"
    /\ i = 2
    /\ Len(results) = 1
    /\ NoRequestFor(pods[2].name)
    /\ TimeRemaining > 0
    /\ TimeRemaining < args.timeoutSeconds * 1000

\* C22: the deadline clock is started at Cordoning, so that the time taken by the
\* cordon patch and the pod listing comes out of the timeout budget: the deadline
\* of the pod processing is the start of the call (time 0) plus the timeout, and
\* the call, from the cordon patch to the report, is over by then (one poll
\* interval of slack allowed).
C22_ClockStartsAtCordoning ==
    (CordonOK /\ ListOK) =>
        /\ deadline = args.timeoutSeconds * 1000
        /\ now <= args.timeoutSeconds * 1000 + PollIntervalMS

\* a drain reports after more than the timeout plus a poll interval: cordon and
\* listing were slow and an eviction then ran into the deadline
C22_Witness ==
    /\ Reported
    /\ CordonOK /\ ListOK
    /\ deadline > args.timeoutSeconds * 1000
    /\ now > args.timeoutSeconds * 1000 + PollIntervalMS
    /\ \E k \in 1..Len(results) : results[k].error = <<"context deadline exceeded">>

\* the eviction answers the spec calls transient, and those the engine retries
TransientAnswers == {"Conflict", "Timeout", "ServerTimeout"}

RetriedAnswers == TransientAnswers \cup {"TooManyRequests"}

\* C23: a transient eviction error (conflict, timeout, server timeout) is treated
\* exactly as congestion is: the engine sleeps for the current backoff; if the
\* deadline comes first the pod fails with the deadline error at the deadline,
\* otherwise the backoff is doubled, cut down to backoffMax, and the eviction is
\* tried again. Congestion and transient retries of one pod advance one common
\* backoff: each sleep is the double of the one before, cut down to backoffMax,
\* whatever the mix of answers. (API calls take no time in this specification.)
C23_TransientRetriedAsCongestion ==
    [][ /\ (pc = "evict" /\ reqs' # reqs /\ resp' \in RetriedAnswers) =>
              /\ sleeps' = Append(sleeps, backoff)
              /\ IF now + backoff < deadline
                 THEN /\ pc' = "evict"
                      /\ now' = now + backoff
                      /\ backoff' = IF 2 * backoff > BackoffMax THEN BackoffMax
                                                                ELSE 2 * backoff
                      /\ err' = "nil"
                 ELSE /\ pc' = "outcome"
                      /\ now' = deadline
                      /\ err' = "context deadline exceeded"
        /\ Len(sleeps') >= 1 => sleeps'[1] = BackoffInitial
        /\ \A k \in 1..(Len(sleeps') - 1) :
              sleeps'[k + 1] = IF 2 * sleeps'[k] > BackoffMax THEN BackoffMax
                                                               ELSE 2 * sleeps'[k] ]_vars

\* a refusal for congestion that comes after a transient error of the same pod is
\* followed by the third sleep of one common sequence and a further attempt
C23_Witness ==
    /\ pc = "evict"
    /\ resp = "TooManyRequests"
    /\ ~congested
    /\ sleeps = <<1000, 2000, 4000>>
    /\ backoff = 8000
    /\ now = 7000

\* what the rules of the classifier, taken in their stated order with the first
\* match deciding, make of pod p: no entry at all, one of the three skips, or the
\* eviction engine
FirstMatch(p) ==
    IF Terminal(p) THEN "none"
    ELSE IF MirrorAnnotated(p) THEN "skipped (mirror/static pod)"
    ELSE IF args.ignoreDaemonsets /\ DaemonSetOwned(p) THEN "skipped (daemonset)"
    ELSE IF ~args.deleteLocalData /\ ~args.force /\ LocalData(p)
    THEN "skipped (local data; set delete_local_data=true or force=true)"
    ELSE "engine"

\* C24: the rules are applied in the order terminal phase, mirror annotation,
\* DaemonSet ownership (under ignore_daemonsets), local data (with neither
\* delete_local_data nor force), and the first rule that matches decides alone: a
\* terminal pod gets no entry and no request, a pod whose first match is a skip is
\* recorded with that skip and gets no request, and a pod that matches no rule is
\* handed to the eviction engine; no other pod is.
C24_FirstMatchDecides ==
    \A k \in DOMAIN pods :
        /\ InEngine(k) => FirstMatch(pods[k]) = "engine"
        /\ Passed(k) =>
              LET n == pods[k].name
                  d == FirstMatch(pods[k])
              IN IF d = "none" THEN ActionOf(n) = "none" /\ NoRequestFor(n)
                 ELSE IF d = "engine"
                 THEN ActionOf(n) \in {"evicted", "force_deleted", "evict_failed",
                                       "evict_failed_delete_failed"}
                 ELSE ActionOf(n) = d /\ NoRequestFor(n)

\* under ignore_daemonsets alone, a mirror pod that is also DaemonSet-owned is
\* reported as a mirror skip and a DaemonSet pod with a hostPath volume as a
\* DaemonSet skip
C24_Witness ==
    /\ Reported
    /\ args.ignoreDaemonsets /\ ~args.deleteLocalData /\ ~args.force
    /\ \E k, j \in DOMAIN pods :
        /\ NonTerminal(pods[k]) /\ MirrorAnnotated(pods[k]) /\ DaemonSetOwned(pods[k])
        /\ ActionOf(pods[k].name) = "skipped (mirror/static pod)"
        /\ NonTerminal(pods[j]) /\ ~MirrorAnnotated(pods[j])
        /\ DaemonSetOwned(pods[j]) /\ LocalData(pods[j])
        /\ ActionOf(pods[j].name) = "skipped (daemonset)"

\* C25: the only mutation of the node in a drain is one patch that sets
\* unschedulable to true; it is issued before the pod listing and before any
\* evictPod, getPod or deletePod request, which happen only once it has succeeded;
\* no step sets the flag back, so after a successful cordon the node stays
\* unschedulable on every exit path, a failed listing and a report with failed
\* pods included.
C25_CordonOnceNeverUndone ==
    [][ /\ Len(patches') <= 1
        /\ \A k \in DOMAIN patches' : patches'[k].unschedulable = TRUE
        /\ patches' # patches => (lists = <<>> /\ NoRequests)
        /\ (lists' # lists \/ reqs' # reqs) => CordonOK
        /\ unschedulable => unschedulable'
        /\ CordonOK' => unschedulable' ]_vars

\* the report lists a pod whose eviction failed, and the node is still cordoned
C25_Witness ==
    /\ Reported
    /\ unschedulable
    /\ Len(patches) = 1
    /\ \E k \in DOMAIN result.results : result.results[k].action = "evict_failed"

\* the three skip outcomes, as the code writes them
SkipActions ==
    {"skipped (mirror/static pod)", "skipped (daemonset)",
     "skipped (local data; set delete_local_data=true or force=true)"}

\* C26: for a pod whose outcome is a skip (mirror, DaemonSet or local data) no
\* evictPod, getPod or deletePod request is issued at any time of the drain,
\* whatever the force flag.
C26_SkippedPodsGetNoRequest ==
    \A k \in DOMAIN results :
        results[k].action \in SkipActions => NoRequestFor(results[k].name)

\* under force, one pod was skipped as a DaemonSet pod and another was deleted
\* after its eviction had failed
C26_Witness ==
    /\ Reported
    /\ args.force
    /\ \E k, j \in DOMAIN results :
        /\ results[k].action = "skipped (daemonset)"
        /\ results[j].action = "force_deleted"
        /\ reqs["delete"][results[j].name] = 1

\* C27: backoff state is not shared across pods: the engine starts every eligible
\* pod with a backoff of backoffInitial and no sleep behind it, so the first
\* backoff sleep of every pod is backoffInitial however often earlier pods were
\* retried; the request configuration and the deadline are what passes unchanged
\* from one pod to the next.
C27_BackoffNotShared ==
    [][ /\ (pc = "loop" /\ pc' = "evict") =>
              /\ backoff' = BackoffInitial
              /\ sleeps' = <<>>
        /\ Len(sleeps') >= 1 => sleeps'[1] = BackoffInitial
        /\ Records => (args' = args /\ deadline' = deadline) ]_vars

\* the second pod sleeps for backoffInitial after its first refused attempt, the
\* first pod having been through three attempts or more
C27_Witness ==
    /\ pc = "evict"
    /\ i = 2
    /\ reqs["evict"][pods[1].name] >= 3
    /\ args.retryBackoffMS = 2000
    /\ sleeps = <<2000>>
    /\ backoff = 4000

\* the engine's error says that the deadline elapsed, in a wait or during a request
TimedOut(e) == e \in {"context deadline exceeded", "request: context deadline exceeded"}

\* C28: the force-delete fallback runs under the drain deadline of the eviction.
\* Whenever the engine has failed and force is set a deletePod request is issued;
\* an engine failure by timeout leaves no time, and with the deadline elapsed the
\* delete fails, so that the pod is recorded with the delete-failed outcome and
\* both errors; force_deleted is recorded only when the engine failed with a fatal
\* error before the deadline.
C28_FallbackUnderSameDeadline ==
    [][ (Records /\ args.force /\ err # "nil") =>
          /\ reqs'["delete"][CurrentPod.name] = reqs["delete"][CurrentPod.name] + 1
          /\ TimedOut(err) => now >= deadline
          /\ now >= deadline =>
                /\ NewEntry.action = "evict_failed_delete_failed"
                /\ Len(NewEntry.error) = 2
                /\ NewEntry.error[1] = err
                /\ TimedOut(NewEntry.error[2])
          /\ NewEntry.action = "force_deleted" => (~TimedOut(err) /\ now < deadline)
      ]_vars

\* under force, an accepted eviction whose pod never went away has been recorded
\* with the deadline error twice, once from the poll and once from the delete
C28_Witness ==
    /\ pc = "loop"
    /\ args.force
    /\ now = deadline
    /\ Len(results) >= 1
    /\ results[Len(results)].action = "evict_failed_delete_failed"
    /\ results[Len(results)].error =
          <<"context deadline exceeded", "context deadline exceeded">>
    /\ reqs["get"][results[Len(results)].name] >= 2
    /\ reqs["delete"][results[Len(results)].name] = 1

\* C29: once an eviction has been accepted and the listed pod instance has been
\* removed before the deadline, the pod's outcome is evicted, also when a
\* controller has put a replacement pod under the same namespace and name: here
\* the poll itself has been answered, before the deadline, with the replacement.
C29_ReplacementCountsAsGone ==
    [][ (Records /\ resp = "Accepted" /\ seen = "repl") =>
            NewEntry.action = "evicted" ]_vars

\* the eviction was accepted, the pod was replaced under its name, the poll saw the
\* replacement until the deadline and the engine has returned the deadline error
C29_Witness ==
    /\ pc = "outcome"
    /\ resp = "Accepted"
    /\ seen = "repl"
    /\ cluster[CurrentPod.name] = "repl"
    /\ err = "context deadline exceeded"
    /\ now = deadline

\* C30: in the disappearance poll a getPod error other than not-found does not
\* fail the pod: while the deadline has not come the engine waits for the next
\* tick, one poll interval after the last, and polls again; when the deadline
\* comes first it ends with the deadline error. A pod whose eviction was accepted
\* is therefore recorded with no error or with the deadline error as the engine's
\* error, never with the error of a getPod.
C30_GetErrorKeepsPolling ==
    [][ /\ (pc = "poll" /\ reqs' # reqs /\ got' = "InternalError") =>
              IF now + PollIntervalMS < deadline
              THEN /\ pc' = "poll"
                   /\ now' = now + PollIntervalMS
                   /\ err' = "nil"
              ELSE \/ /\ pc' = "outcome"
                      /\ err' = "context deadline exceeded"
                      /\ now' = deadline
                   \/ /\ pc' = "poll"
                      /\ now' = deadline
                      /\ err' = "nil"
        /\ (Records /\ resp = "Accepted") =>
              /\ err \in {"nil", "context deadline exceeded"}
              /\ \/ NewEntry.error = <<>>
                 \/ NewEntry.error[1] = "context deadline exceeded"
      ]_vars

\* a getPod has failed with a server error well before the deadline and the engine
\* is waiting to poll again
C30_Witness ==
    /\ pc = "poll"
    /\ got = "InternalError"
    /\ reqs["get"][CurrentPod.name] >= 1
    /\ err = "nil"
    /\ now < deadline

====
